---- MODULE Spec2Model ----
(***************************************************************************)
(* The data-refresh state machine of the bitcoin dashboard                 *)
(* (code/chapter6/AutoGenDemo/bitcoin_app.py): the validating fetcher,     *)
(* should_refresh_data / handle_auto_refresh / refresh_data, and the       *)
(* script pass main() that the host (Streamlit) runs once per poll.        *)
(*                                                                         *)
(* A script pass is a sequence of steps; pc is the position of the pass.   *)
(* The wall clock (datetime.now()) is read separately by each step that    *)
(* reads it and may advance between any two steps.  The clock is taken to  *)
(* be non-decreasing, and a pass is taken to run to its end unless the     *)
(* script itself stops it (st.rerun, an uncaught exception).               *)
(***************************************************************************)
EXTENDS Integers, Sequences, FiniteSets, TLC

VARIABLES
    price_data,                 \* st.session_state["price_data"]
    market_df,                  \* st.session_state["market_df"]
    last_update,                \* st.session_state["last_update"]
    auto_refresh,               \* st.session_state["auto_refresh"]
    refresh_interval,           \* st.session_state["refresh_interval"]
    manual_refresh_triggered,   \* st.session_state["manual_refresh_triggered"]
    clock,                      \* the wall clock, in seconds
    pc,                         \* position of the current script pass
    button,                     \* the value st.sidebar.button returns in this pass
    response,                   \* body of the HTTP response being processed
    local_price,                \* refresh_data's local price_data
    local_df,                   \* refresh_data's local market_df
    error,                      \* exception raised by refresh_data in this pass
    failed,                     \* history: why the last failed refresh was due
    due,                        \* history: last direct call of should_refresh_data
    fired                       \* history: clock read by the handle_auto_refresh
                                \* that restarted the current pass

vars == <<price_data, market_df, last_update, auto_refresh, refresh_interval,
          manual_refresh_triggered, clock, pc, button, response, local_price,
          local_df, error, failed, due, fired>>

session == <<price_data, market_df, last_update, auto_refresh, refresh_interval,
             manual_refresh_triggered>>

(***************************************************************************)
(* Bounds of the model.                                                    *)
(***************************************************************************)
MaxTime == 21           \* the clock of a session runs from 0 to MaxTime
MaxPrice == 1           \* prices quoted by the API range over -1..MaxPrice
MaxPoints == 2          \* longest price curve the API returns
MaxSliderPos == 1       \* slider positions the user picks, counted from the minimum
MaxDueClock == 62       \* clock range of the direct calls of should_refresh_data
MaxDueLast == 1         \* last_update range of the direct calls

(***************************************************************************)
(* Program constants.                                                      *)
(***************************************************************************)
DefaultInterval == 60   \* state.setdefault("refresh_interval", 60)
SliderMin == 10
SliderMax == 300
SliderStep == 10

(***************************************************************************)
(* Python's None and optional values: None is <<>>, a value v is <<v>>.    *)
(***************************************************************************)
None == << >>
Some(v) == <<v>>
Val(o) == o[1]

NoError == "none"
NoFailure == [by |-> "none", interval |-> 0]

(***************************************************************************)
(* What the price API can answer.  A JSON object is a function from its    *)
(* keys; a key may be missing, and a present key may hold null (None).     *)
(***************************************************************************)
UsdValues == {None} \cup {Some(p) : p \in -1..MaxPrice}
ChangeValues == {None, Some(-100), Some(100)}

PricePayloads ==
    {[usd |-> u, usd_24h_change |-> c] : u \in UsdValues, c \in ChangeValues}
    \cup {[usd |-> u] : u \in UsdValues}
    \cup {[usd_24h_change |-> c] : c \in ChangeValues}
    \cup {[k \in {} |-> None]}

PriceBodies == {[bitcoin |-> p] : p \in PricePayloads} \cup {[k \in {} |-> None]}

\* the curve is a list of [timestamp in ms, price] pairs, oldest first
ChartPoint(i) == <<1000 * i, 7 + 2 * (i % 2)>>
ChartLists == {[i \in 1..n |-> ChartPoint(i)] : n \in 0..MaxPoints}
ChartBodies == {[prices |-> l] : l \in ChartLists}
               \cup {[prices |-> None]} \cup {[k \in {} |-> None]}

(***************************************************************************)
(* Results of a call: a returned value, or a raised exception.             *)
(***************************************************************************)
Return(v) == [kind |-> "ok", value |-> v]
Raise(e) == [kind |-> e, value |-> None]

required == <<"current_price", "price_change_24h", "price_change_percentage_24h">>

\* dict.get(field): None for a missing key
Get(data, field) == IF field \in DOMAIN data THEN data[field] ELSE None

\* BitcoinDataService.fetch_current_metrics, the undecorated body
parse_current_metrics(body) ==
    IF "bitcoin" \notin DOMAIN body THEN Raise("KeyError")
    ELSE LET payload == body.bitcoin IN
         IF "usd" \notin DOMAIN payload THEN Raise("KeyError")
         ELSE IF "usd_24h_change" \notin DOMAIN payload THEN Raise("KeyError")
         ELSE IF payload.usd = None \/ payload.usd_24h_change = None
              THEN Raise("TypeError")
         ELSE LET current_price == Val(payload.usd)
                  change_percent == Val(payload.usd_24h_change)
                  change_abs == (current_price * change_percent) \div 100
              IN Return([current_price |-> Some(current_price),
                         price_change_24h |-> Some(change_abs),
                         price_change_percentage_24h |-> Some(change_percent)])

\* validate_price_data rejecting negative prices only
validate_price_data_lenient(result) ==
    IF result.kind # "ok" THEN result
    ELSE LET data == result.value IN
         IF \E i \in 1..Len(required) : Get(data, required[i]) = None
         THEN Raise("DataFetchError")
         ELSE IF Val(data["current_price"]) < 0 THEN Raise("DataFetchError")
         ELSE Return(data)

\* validate_price_data.wrapper, applied to the result of the wrapped call
validate_price_data(result) ==
    IF result.kind # "ok" THEN result
    ELSE LET data == result.value IN
         IF \E i \in 1..Len(required) : Get(data, required[i]) = None
         THEN Raise("DataFetchError")
         ELSE IF Val(data["current_price"]) <= 0 THEN Raise("DataFetchError")
         ELSE Return(data)

\* the decorated BitcoinDataService.fetch_current_metrics
fetch_current_metrics(body) == validate_price_data(parse_current_metrics(body))

\* fetch_market_chart without the test for an empty curve
fetch_market_chart_unchecked(body) ==
    LET prices == IF "prices" \in DOMAIN body THEN body.prices ELSE << >> IN
    Return([i \in 1..Len(prices) |->
               [time |-> prices[i][1], price |-> prices[i][2]]])

\* BitcoinDataService.fetch_market_chart, after the response arrived
fetch_market_chart(body) ==
    LET prices == IF "prices" \in DOMAIN body THEN body.prices ELSE << >> IN
    IF prices = << >> THEN Raise("DataFetchError")
    ELSE Return([i \in 1..Len(prices) |->
                    [time |-> prices[i][1], price |-> prices[i][2]]])

(***************************************************************************)
(* The refresh controller.                                                 *)
(***************************************************************************)
\* should_refresh_data with the interval test written > instead of >=
should_refresh_data_strict(now) ==
    LET needs_refresh == price_data = None
        manual == manual_refresh_triggered
        auto == IF auto_refresh /\ last_update # None
                THEN now - Val(last_update) > refresh_interval
                ELSE FALSE
    IN needs_refresh \/ manual \/ auto

\* should_refresh_data without the test for a missing snapshot
should_refresh_data_no_first(now) ==
    LET manual == manual_refresh_triggered
        auto == IF auto_refresh /\ last_update # None
                THEN now - Val(last_update) >= refresh_interval
                ELSE FALSE
    IN manual \/ auto

\* should_refresh_data without the manual flag
should_refresh_data_no_manual(now) ==
    LET needs_refresh == price_data = None
        auto == IF auto_refresh /\ last_update # None
                THEN now - Val(last_update) >= refresh_interval
                ELSE FALSE
    IN needs_refresh \/ auto

\* should_refresh_data, with now the value datetime.now() returns
should_refresh_data(now) ==
    LET needs_refresh == price_data = None
        manual == manual_refresh_triggered
        auto == IF auto_refresh /\ last_update # None
                THEN now - Val(last_update) >= refresh_interval
                ELSE FALSE
    IN needs_refresh \/ manual \/ auto

\* handle_auto_refresh's test written > instead of >=
auto_refresh_fires_late(now) ==
    /\ auto_refresh
    /\ last_update # None
    /\ now > Val(last_update) + refresh_interval

\* the condition under which handle_auto_refresh does not return early
auto_refresh_fires(now) ==
    /\ auto_refresh
    /\ last_update # None
    /\ now >= Val(last_update) + refresh_interval

\* a slider whose range starts at 0
SliderValues_from_zero == {k * SliderStep : k \in 0..(MaxSliderPos - 1)}
                          \cup {SliderMax}

\* the values st.sidebar.slider lets the user pick, lowest positions and top
SliderValues == {SliderMin + k * SliderStep : k \in 0..(MaxSliderPos - 1)}
                \cup {SliderMax}

Intervals == SliderValues \cup {DefaultInterval}

\* the exceptions main() catches around refresh_data
Caught == {"RequestException", "DataFetchError"}

(***************************************************************************)
(* The session after init_session_state of its first pass, which is about  *)
(* to render the sidebar.  On later passes init_session_state changes      *)
(* nothing: every key is already set.                                      *)
(***************************************************************************)
Init ==
    /\ price_data = None
    /\ market_df = None
    /\ last_update = None
    /\ auto_refresh = FALSE
    /\ refresh_interval = DefaultInterval
    /\ manual_refresh_triggered = FALSE
    /\ clock = 0
    /\ pc = "sidebar"
    /\ button = FALSE
    /\ response = None
    /\ local_price = None
    /\ local_df = None
    /\ error = NoError
    /\ failed = NoFailure
    /\ due = None
    /\ fired = None

\* the wall clock advances, whatever the script is doing
Tick ==
    /\ clock < MaxTime
    /\ clock' = clock + 1
    /\ UNCHANGED <<session, pc, button, response, local_price, local_df,
                   error, failed, due, fired>>

(***************************************************************************)
(* What starts a pass of the script: the host reruns it when the user      *)
(* asks for a rerun or touches a widget.  A keyed widget's new value is in *)
(* the session state when the pass starts.                                 *)
(***************************************************************************)
StartPass(pressed) ==
    /\ pc = "idle"
    /\ pc' = "sidebar"
    /\ button' = pressed
    /\ error' = NoError
    /\ UNCHANGED <<clock, response, local_price, local_df, failed, due, fired>>

Rerun ==
    /\ StartPass(FALSE)
    /\ UNCHANGED session

\* st.sidebar.checkbox(key="auto_refresh")
ToggleAutoRefresh ==
    /\ StartPass(FALSE)
    /\ auto_refresh' = ~auto_refresh
    /\ UNCHANGED <<price_data, market_df, last_update, refresh_interval,
                   manual_refresh_triggered>>

\* st.sidebar.slider(min_value=10, max_value=300, step=10, key="refresh_interval")
SlideInterval ==
    /\ StartPass(FALSE)
    /\ \E v \in SliderValues \ {refresh_interval} : refresh_interval' = v
    /\ UNCHANGED <<price_data, market_df, last_update, auto_refresh,
                   manual_refresh_triggered>>

\* the user presses st.sidebar.button: it returns True in the pass this starts
ClickRefresh ==
    /\ StartPass(TRUE)
    /\ UNCHANGED session

\* render_sidebar arming the flag whether or not the button was pressed
render_sidebar_always ==
    /\ pc = "sidebar"
    /\ manual_refresh_triggered' = TRUE
    /\ button' = FALSE
    /\ pc' = IF button THEN "sidebar" ELSE "auto"
    /\ UNCHANGED <<price_data, market_df, last_update, auto_refresh,
                   refresh_interval, clock, response, local_price, local_df,
                   error, failed, due, fired>>

\* render_sidebar: a pressed button arms the flag and restarts the pass
render_sidebar ==
    /\ pc = "sidebar"
    /\ IF button
       THEN /\ manual_refresh_triggered' = TRUE
            /\ button' = FALSE
            /\ pc' = "sidebar"
       ELSE /\ pc' = "auto"
            /\ UNCHANGED <<manual_refresh_triggered, button>>
    /\ UNCHANGED <<price_data, market_df, last_update, auto_refresh,
                   refresh_interval, clock, response, local_price, local_df,
                   error, failed, due, fired>>

\* a handle_auto_refresh that forgets to stamp last_update when it fires
handle_auto_refresh_unstamped ==
    /\ pc = "auto"
    /\ IF auto_refresh_fires(clock)
       THEN /\ manual_refresh_triggered' = TRUE
            /\ pc' = "sidebar"
            /\ fired' = Some(clock)
       ELSE /\ pc' = "should"
            /\ fired' = None
            /\ UNCHANGED manual_refresh_triggered
    /\ UNCHANGED <<price_data, market_df, last_update, auto_refresh,
                   refresh_interval, clock, button, response, local_price,
                   local_df, error, failed, due>>

\* a handle_auto_refresh that refreshes by itself instead of restarting the pass
handle_auto_refresh_recursive ==
    /\ pc = "auto"
    /\ IF auto_refresh_fires(clock)
       THEN /\ manual_refresh_triggered' = TRUE
            /\ last_update' = Some(clock)
            /\ pc' = "fetch_price"
            /\ fired' = Some(clock)
       ELSE /\ pc' = "should"
            /\ fired' = None
            /\ UNCHANGED <<manual_refresh_triggered, last_update>>
    /\ UNCHANGED <<price_data, market_df, auto_refresh, refresh_interval,
                   clock, button, response, local_price, local_df, error,
                   failed, due>>

\* handle_auto_refresh: st.rerun() restarts the pass from the top
handle_auto_refresh ==
    /\ pc = "auto"
    /\ IF auto_refresh_fires(clock)
       THEN /\ manual_refresh_triggered' = TRUE
            /\ last_update' = Some(clock)
            /\ pc' = "sidebar"
            /\ fired' = Some(clock)
       ELSE /\ pc' = "should"
            /\ fired' = None
            /\ UNCHANGED <<manual_refresh_triggered, last_update>>
    /\ UNCHANGED <<price_data, market_df, auto_refresh, refresh_interval,
                   clock, button, response, local_price, local_df, error,
                   failed, due>>

\* main: if should_refresh_data(): ... refresh_data()
check_refresh ==
    /\ pc = "should"
    /\ pc' = IF should_refresh_data(clock) THEN "fetch_price" ELSE "render"
    /\ failed' = NoFailure
    /\ UNCHANGED <<session, clock, button, response, local_price, local_df,
                   error, due, fired>>

\* a refresh_data that clears the manual flag when it fails as well
refresh_fails_clearing(e) ==
    /\ error' = e
    /\ pc' = IF e \in Caught THEN "render" ELSE "idle"
    /\ response' = None
    /\ local_price' = None
    /\ local_df' = None
    /\ failed' = [by |-> IF price_data = None \/ manual_refresh_triggered
                         THEN "flag" ELSE "interval",
                  interval |-> refresh_interval]
    /\ manual_refresh_triggered' = FALSE
    /\ UNCHANGED <<price_data, market_df, last_update, auto_refresh,
                   refresh_interval, clock, button, due, fired>>

(***************************************************************************)
(* refresh_data raises e.  No field of the session has been written.  main *)
(* shows a caught exception and goes on to render; any other exception     *)
(* ends the pass.                                                          *)
(***************************************************************************)
refresh_fails(e) ==
    /\ error' = e
    /\ pc' = IF e \in Caught THEN "render" ELSE "idle"
    /\ response' = None
    /\ local_price' = None
    /\ local_df' = None
    /\ failed' = [by |-> IF price_data = None \/ manual_refresh_triggered
                         THEN "flag" ELSE "interval",
                  interval |-> refresh_interval]
    /\ UNCHANGED <<session, clock, button, due, fired>>

\* fetch_current_metrics: requests.get(url, timeout=10); raise_for_status()
get_current_metrics ==
    /\ pc = "fetch_price"
    /\ \/ \E body \in PriceBodies :
             /\ response' = Some(body)
             /\ pc' = "price_received"
             /\ UNCHANGED <<session, clock, button, local_price, local_df,
                            error, failed, due, fired>>
       \/ refresh_fails("RequestException")

\* a refresh_data that stores the snapshot as soon as it is fetched
price_received_eager ==
    /\ pc = "price_received"
    /\ LET result == fetch_current_metrics(Val(response)) IN
       IF result.kind = "ok"
       THEN /\ local_price' = Some(result.value)
            /\ price_data' = Some(result.value)
            /\ response' = None
            /\ pc' = "fetch_chart"
            /\ UNCHANGED <<market_df, last_update, auto_refresh,
                           refresh_interval, manual_refresh_triggered, clock,
                           button, local_df, error, failed, due, fired>>
       ELSE refresh_fails(result.kind)

\* a refresh_data that goes on to the curve after the price fetch failed
price_received_continuing ==
    /\ pc = "price_received"
    /\ LET result == fetch_current_metrics(Val(response)) IN
       /\ local_price' = IF result.kind = "ok" THEN Some(result.value) ELSE None
       /\ error' = IF result.kind = "ok" THEN error ELSE result.kind
       /\ response' = None
       /\ pc' = "fetch_chart"
       /\ UNCHANGED <<session, clock, button, local_df, failed, due, fired>>

\* price_data = service.fetch_current_metrics(), from the response on
price_received ==
    /\ pc = "price_received"
    /\ LET result == fetch_current_metrics(Val(response)) IN
       IF result.kind = "ok"
       THEN /\ local_price' = Some(result.value)
            /\ response' = None
            /\ pc' = "fetch_chart"
            /\ UNCHANGED <<session, clock, button, local_df, error, failed, due, fired>>
       ELSE refresh_fails(result.kind)

\* fetch_market_chart: requests.get(url, timeout=10); raise_for_status()
get_market_chart ==
    /\ pc = "fetch_chart"
    /\ \/ \E body \in ChartBodies :
             /\ response' = Some(body)
             /\ pc' = "chart_received"
             /\ UNCHANGED <<session, clock, button, local_price, local_df,
                            error, failed, due, fired>>
       \/ refresh_fails("RequestException")

\* market_df = service.fetch_market_chart(), from the response on
chart_received ==
    /\ pc = "chart_received"
    /\ LET result == fetch_market_chart(Val(response)) IN
       IF result.kind = "ok"
       THEN /\ local_df' = Some(result.value)
            /\ response' = None
            /\ pc' = "store"
            /\ UNCHANGED <<session, clock, button, local_price, error, failed, due, fired>>
       ELSE refresh_fails(result.kind)

\* a refresh_data that forgets to store the curve
refresh_data_store_partial ==
    /\ pc = "store"
    /\ price_data' = local_price
    /\ last_update' = Some(clock)
    /\ manual_refresh_triggered' = FALSE
    /\ local_price' = None
    /\ local_df' = None
    /\ pc' = "render"
    /\ UNCHANGED <<market_df, auto_refresh, refresh_interval, clock, button,
                   response, error, failed, due, fired>>

\* a refresh_data that forgets to stamp last_update
refresh_data_store_untimed ==
    /\ pc = "store"
    /\ price_data' = local_price
    /\ market_df' = local_df
    /\ manual_refresh_triggered' = FALSE
    /\ local_price' = None
    /\ local_df' = None
    /\ pc' = "render"
    /\ UNCHANGED <<last_update, auto_refresh, refresh_interval, clock, button,
                   response, error, failed, due, fired>>

\* refresh_data, after both fetches returned: the four writes
refresh_data_store ==
    /\ pc = "store"
    /\ price_data' = local_price
    /\ market_df' = local_df
    /\ last_update' = Some(clock)
    /\ manual_refresh_triggered' = FALSE
    /\ local_price' = None
    /\ local_df' = None
    /\ pc' = "render"
    /\ UNCHANGED <<auto_refresh, refresh_interval, clock, button, response,
                   error, failed, due, fired>>

\* main, after the refresh: the page is rendered from the session state
render ==
    /\ pc = "render"
    /\ pc' = "idle"
    /\ UNCHANGED <<session, clock, button, response, local_price, local_df,
                   error, failed, due, fired>>

Next ==
    \/ Tick
    \/ Rerun
    \/ ToggleAutoRefresh
    \/ SlideInterval
    \/ ClickRefresh
    \/ render_sidebar
    \/ handle_auto_refresh
    \/ check_refresh
    \/ get_current_metrics
    \/ price_received
    \/ get_market_chart
    \/ chart_received
    \/ refresh_data_store
    \/ render

Spec == Init /\ [][Next]_vars

(***************************************************************************)
(* The session under the conditions of the liveness claim.  The script     *)
(* runs each pass to its end and each HTTP call returns or raises within   *)
(* its timeout (weak fairness of the steps of a pass); the host keeps      *)
(* polling (weak fairness of Rerun); the clock keeps advancing up to the   *)
(* bound; and the API answers well again and again (strong fairness of the *)
(* two good answers).                                                      *)
(***************************************************************************)
PassStep ==
    \/ render_sidebar
    \/ handle_auto_refresh
    \/ check_refresh
    \/ get_current_metrics
    \/ price_received
    \/ get_market_chart
    \/ chart_received
    \/ refresh_data_store
    \/ render

\* the price API answers with a body fetch_current_metrics accepts
GoodPriceAnswer ==
    /\ get_current_metrics
    /\ IF response' = None THEN FALSE
       ELSE fetch_current_metrics(Val(response')).kind = "ok"

\* the market-chart API answers with a curve fetch_market_chart accepts
GoodChartAnswer ==
    /\ get_market_chart
    /\ IF response' = None THEN FALSE
       ELSE fetch_market_chart(Val(response')).kind = "ok"

\* The clock of the liveness runs goes from 0 to MaxLiveTime: far enough for
\* a firing SliderMin after the first refresh and the refresh it leads to.
MaxLiveTime == 11

TickLive ==
    /\ clock < MaxLiveTime
    /\ clock' = clock + 1
    /\ UNCHANGED <<session, pc, button, response, local_price, local_df,
                   error, failed, due, fired>>

NextLive ==
    \/ TickLive
    \/ Rerun
    \/ ToggleAutoRefresh
    \/ SlideInterval
    \/ ClickRefresh
    \/ PassStep

SpecLive ==
    /\ Init
    /\ [][NextLive]_vars
    /\ WF_vars(PassStep)
    /\ WF_vars(Rerun)
    /\ WF_vars(TickLive)
    /\ SF_vars(GoodPriceAnswer)
    /\ SF_vars(GoodChartAnswer)

(***************************************************************************)
(* should_refresh_data called directly, on a session whose fields are      *)
(* drawn from the states a session can be in: nothing held yet, or a       *)
(* snapshot, a curve and the time they were stored.  Nothing but the clock *)
(* changes between the calls.                                              *)
(***************************************************************************)
MaxCalls == 2           \* direct calls of should_refresh_data that are counted

SampleSnapshot ==
    fetch_current_metrics([bitcoin |-> [usd |-> Some(1),
                                        usd_24h_change |-> Some(100)]]).value
SampleCurve == fetch_market_chart([prices |-> <<ChartPoint(1)>>]).value

InitDue ==
    /\ \/ /\ price_data = None
          /\ market_df = None
          /\ last_update = None
       \/ /\ price_data = Some(SampleSnapshot)
          /\ market_df = Some(SampleCurve)
          /\ last_update \in {Some(t) : t \in 0..MaxDueLast}
    /\ auto_refresh \in BOOLEAN
    /\ refresh_interval \in Intervals
    /\ manual_refresh_triggered \in BOOLEAN
    /\ clock = 0
    /\ pc = "direct"
    /\ button = FALSE
    /\ response = None
    /\ local_price = None
    /\ local_df = None
    /\ error = NoError
    /\ failed = NoFailure
    /\ due = None
    /\ fired = None

\* a should_refresh_data that consumes the manual flag when it reads it
should_refresh_call_consuming ==
    /\ pc = "direct"
    /\ IF due = None THEN TRUE ELSE Val(due).calls < MaxCalls
    /\ due' = Some([now |-> clock,
                    result |-> should_refresh_data(clock),
                    calls |-> IF due = None THEN 1 ELSE Val(due).calls + 1])
    /\ manual_refresh_triggered' = FALSE
    /\ UNCHANGED <<price_data, market_df, last_update, auto_refresh,
                   refresh_interval, clock, pc, button, response, local_price,
                   local_df, error, failed, fired>>

\* a call of should_refresh_data(): it reads the clock and returns
should_refresh_call ==
    /\ pc = "direct"
    /\ IF due = None THEN TRUE ELSE Val(due).calls < MaxCalls
    /\ due' = Some([now |-> clock,
                    result |-> should_refresh_data(clock),
                    calls |-> IF due = None THEN 1 ELSE Val(due).calls + 1])
    /\ UNCHANGED <<session, clock, pc, button, response, local_price,
                   local_df, error, failed, fired>>

DueTick ==
    /\ pc = "direct"
    /\ clock < MaxDueClock
    /\ clock' = clock + 1
    /\ UNCHANGED <<session, pc, button, response, local_price, local_df,
                   error, failed, due, fired>>

NextDue ==
    \/ should_refresh_call
    \/ DueTick

SpecDue == InitDue /\ [][NextDue]_vars

(***************************************************************************)
(* Properties of should_refresh_data, under SpecDue.                       *)
(***************************************************************************)
\* what the specification says isRefreshDue(now) is
DueCondition(now) ==
    \/ price_data = None
    \/ manual_refresh_triggered
    \/ /\ auto_refresh
       /\ last_update # None
       /\ now - Val(last_update) >= refresh_interval

\* C1: should_refresh_data returns true exactly when the snapshot is absent,
\* or the manual flag is set, or auto refresh is on, last_update is present
\* and now - last_update >= refresh_interval; with a snapshot held, the flag
\* unset, auto refresh on and an interval of 60 it is true 60 s after
\* last_update and false 59 s after it.
C1_DueExactly ==
    due # None =>
        LET now == Val(due).now
            result == Val(due).result
        IN /\ result = DueCondition(now)
           /\ ( /\ price_data # None
                /\ ~manual_refresh_triggered
                /\ auto_refresh
                /\ last_update # None
                /\ refresh_interval = 60 )
              => /\ now = Val(last_update) + 60 => result = TRUE
                 /\ now = Val(last_update) + 59 => result = FALSE

C1_Witness ==
    /\ due # None
    /\ price_data # None
    /\ ~manual_refresh_triggered
    /\ auto_refresh
    /\ refresh_interval = 60
    /\ last_update # None
    /\ Val(due).now = Val(last_update) + 60
    /\ Val(due).result = TRUE

\* C10 as stated: should_refresh_data leaves the session unchanged, and every
\* call made with no mutating operation since the call before returns what
\* that call returned.
C10_SameResultEveryCall ==
    [][due' # due =>
          /\ UNCHANGED session
          /\ due # None => Val(due').result = Val(due).result]_vars

\* C10 amended: should_refresh_data leaves the session unchanged, and a call
\* made with no mutating operation since the call before, and reading the
\* same clock value, returns what that call returned.
C10_PureRead ==
    [][due' # due =>
          /\ UNCHANGED session
          /\ (due # None /\ Val(due').now = Val(due).now)
             => Val(due').result = Val(due).result]_vars

C10_Witness ==
    /\ due # None
    /\ Val(due).calls = 2
    /\ Val(due).now = clock
    /\ manual_refresh_triggered
    /\ Val(due).result = TRUE

(***************************************************************************)
(* Properties of a session, under Spec.                                    *)
(***************************************************************************)
\* positions of a pass inside refresh_data before its writes
Fetching == {"fetch_price", "price_received", "fetch_chart", "chart_received"}

\* C2: when refresh_data fails, every field of the session is as it was
\* before the call: no step of a refresh up to and including the one that
\* raises writes a field, so the snapshot, the curve and last_update keep
\* their values and the manual flag is not cleared.
C2_FailureLeavesState ==
    [][/\ pc \in Fetching => UNCHANGED session
       /\ error' # error /\ error' # NoError
          => (pc \in Fetching /\ UNCHANGED session)]_vars

C2_Witness ==
    /\ error = "DataFetchError"
    /\ pc = "render"
    /\ manual_refresh_triggered
    /\ price_data # None
    /\ market_df # None

\* C3: when refresh_data succeeds the manual flag is false, last_update is
\* the time read by that call, and the snapshot and the curve are the values
\* its two fetches returned; the snapshot and the curve change in no other
\* step, so no state holds a new snapshot with the old curve or last_update.
C3_SuccessReplacesAll ==
    [][/\ (pc = "store" /\ pc' # "store")
          => /\ local_price # None
             /\ local_df # None
             /\ price_data' = local_price
             /\ market_df' = local_df
             /\ last_update' = Some(clock)
             /\ manual_refresh_triggered' = FALSE
       /\ (price_data' # price_data \/ market_df' # market_df)
          => (pc = "store" /\ pc' = "render")]_vars

C3_Witness ==
    /\ pc = "render"
    /\ error = NoError
    /\ price_data # None
    /\ market_df # None
    /\ Len(Val(market_df)) = MaxPoints
    /\ last_update = Some(clock)
    /\ clock > 0
    /\ ~manual_refresh_triggered

C4_IntervalRetry ==
    /\ pc = "should"
    /\ failed.by = "interval"
    /\ auto_refresh
    /\ refresh_interval <= failed.interval

\* the price API response lacks a required field: the current price or the
\* 24h percent change is missing or null
LacksField(body) ==
    IF "bitcoin" \notin DOMAIN body THEN TRUE
    ELSE \E k \in {"usd", "usd_24h_change"} : Get(body.bitcoin, k) = None

\* C5 as stated: fetch_current_metrics raises DataFetchError, and nothing
\* else, whenever the response lacks a required field and whenever the
\* price is <= 0, and returns a value only when the fields are present and
\* the price is > 0.
C5_OnlyDataFetchError ==
    [][(pc = "price_received" /\ pc' # "price_received") =>
          LET body == Val(response) IN
          IF LacksField(body) THEN error' = "DataFetchError"
          ELSE IF Val(body.bitcoin.usd) <= 0 THEN error' = "DataFetchError"
          ELSE error' = NoError /\ local_price' # None]_vars

\* a snapshot as the data model defines it
ValidSnapshot(data) ==
    /\ \A i \in 1..Len(required) :
          required[i] \in DOMAIN data /\ data[required[i]] # None
    /\ Val(data["current_price"]) > 0

\* C6: the snapshot held by the session is absent, or has its three fields
\* present and a price > 0, in every reachable state.
C6_SnapshotValid ==
    price_data # None => ValidSnapshot(Val(price_data))

C6_Witness ==
    /\ price_data # None
    /\ Val(Val(price_data)["current_price"]) = MaxPrice
    /\ Val(Val(price_data)["price_change_24h"]) = -MaxPrice
    /\ error = "DataFetchError"
    /\ pc = "idle"

\* C7: a refresh is due, at any time, in every state in which last_update
\* or the snapshot is absent, whatever auto_refresh, refresh_interval and
\* the manual flag are; and a pass that reaches the test in such a state, as
\* the first pass of a session does, goes on to fetch.
C7_DueWhenNothingHeld ==
    /\ [](last_update = None \/ price_data = None
          => \A now \in 0..MaxTime : should_refresh_data(now))
    /\ [][( /\ pc = "should"
            /\ pc' # "should"
            /\ last_update = None \/ price_data = None )
          => pc' = "fetch_price"]_vars

C7_Witness ==
    /\ pc = "fetch_price"
    /\ price_data = None
    /\ last_update = None
    /\ auto_refresh
    /\ ~manual_refresh_triggered
    /\ refresh_interval = SliderMax

\* C8: handle_auto_refresh fires exactly when auto_refresh is on, last_update
\* is present and now >= last_update + refresh_interval; firing sets the
\* manual flag and last_update = now and restarts the pass; otherwise it
\* changes nothing and the pass goes on; it never fetches and never changes
\* the snapshot, the curve, auto_refresh or refresh_interval.
C8_AutoRefreshBoundary ==
    [][(pc = "auto" /\ pc' # "auto") =>
          /\ IF /\ auto_refresh
                /\ last_update # None
                /\ clock >= Val(last_update) + refresh_interval
             THEN /\ manual_refresh_triggered' = TRUE
                  /\ last_update' = Some(clock)
                  /\ pc' = "sidebar"
             ELSE /\ UNCHANGED session
                  /\ pc' = "should"
          /\ UNCHANGED <<price_data, market_df, auto_refresh, refresh_interval,
                         response, local_price, local_df, error>>]_vars

C8_Witness ==
    /\ pc = "sidebar"
    /\ ~button
    /\ auto_refresh
    /\ manual_refresh_triggered
    /\ last_update = Some(clock)
    /\ clock = SliderMin
    /\ refresh_interval = SliderMin
    /\ price_data # None

\* C9 as stated: the manual flag goes from false to true only through the
\* manual-refresh button, and from true to false only through a successful
\* refresh_data.
C9_OnlyButtonSets ==
    [][/\ (~manual_refresh_triggered /\ manual_refresh_triggered')
          => (pc = "sidebar" /\ button)
       /\ (manual_refresh_triggered /\ ~manual_refresh_triggered')
          => pc = "store"]_vars

\* C9 amended: the manual flag goes from false to true only through the
\* manual-refresh button or through handle_auto_refresh when it fires, and
\* from true to false only through a successful refresh_data.
C9_FlagOwnership ==
    [][/\ (~manual_refresh_triggered /\ manual_refresh_triggered')
          => \/ pc = "sidebar" /\ button
             \/ pc = "auto" /\ auto_refresh_fires(clock)
       /\ (manual_refresh_triggered /\ ~manual_refresh_triggered')
          => pc = "store"]_vars

C9_Witness ==
    /\ pc = "auto"
    /\ manual_refresh_triggered
    /\ auto_refresh
    /\ last_update = Some(clock)
    /\ clock >= SliderMin
    /\ error = NoError

\* C11 as stated: every error raised by the fetcher during a pass is shown
\* and is not fatal to the pass: the step that raises leaves the session as
\* it was and the pass goes on to render the page from it.
C11_ErrorsShownPassCompletes ==
    [][(error' # error /\ error' # NoError)
          => /\ pc' = "render"
             /\ error' \in Caught
             /\ UNCHANGED session]_vars

\* positions of a pass inside refresh_data
InRefresh == Fetching \cup {"store"}

C13_IntervalInRange ==
    refresh_interval >= 10 /\ refresh_interval <= 300

C13_Witness ==
    /\ refresh_interval = SliderMax
    /\ pc = "render"
    /\ price_data # None
    /\ auto_refresh

\* the "prices" list of a market-chart response, [] when the key is missing
\* or null
PricesOf(body) == IF "prices" \in DOMAIN body THEN body.prices ELSE << >>

\* C14: fetch_market_chart raises DataFetchError when the returned curve is
\* empty or missing, and for a non-empty curve returns as many points as the
\* source, in the source's order; so the curve held by the session is absent
\* or non-empty in every reachable state.
C14_CurveNonEmpty ==
    /\ [][(pc = "chart_received" /\ pc' # "chart_received") =>
             LET prices == PricesOf(Val(response)) IN
             IF Len(prices) = 0
             THEN error' = "DataFetchError" /\ local_df' = None
             ELSE /\ error' = error
                  /\ local_df' # None
                  /\ Len(Val(local_df')) = Len(prices)
                  /\ \A i \in 1..Len(prices) :
                        /\ Val(local_df')[i].time = prices[i][1]
                        /\ Val(local_df')[i].price = prices[i][2]]_vars
    /\ [](market_df # None => Len(Val(market_df)) > 0)

C14_Witness ==
    /\ pc = "store"
    /\ local_df # None
    /\ Len(Val(local_df)) = MaxPoints
    /\ Val(local_df)[1].time < Val(local_df)[MaxPoints].time

\* C15: refresh_data fetches the price first and the curve second: the curve
\* fetch begins only when the price fetch has returned a value, the writes
\* begin only when the curve fetch has returned a value, a failure of either
\* fetch ends the refresh, and no field of the session is written before both
\* fetches have returned.
C15_FetchesInSequence ==
    [][/\ (pc' = "fetch_chart" /\ pc # "fetch_chart")
          => (pc = "price_received" /\ local_price' # None /\ error' = NoError)
       /\ (pc' = "store" /\ pc # "store")
          => (pc = "chart_received" /\ local_price # None /\ local_df' # None)
       /\ (pc \in Fetching /\ error' # NoError)
          => (pc' \in {"render", "idle"} /\ local_price' = None /\ local_df' = None)
       /\ ~UNCHANGED session /\ pc \in InRefresh
          => (pc = "store" /\ local_price # None /\ local_df # None)]_vars

C15_Witness ==
    /\ pc = "chart_received"
    /\ local_price # None
    /\ local_df = None
    /\ price_data = None
    /\ market_df = None
    /\ last_update = None

\* C16: the snapshot, the curve and last_update are all absent or all
\* present in every reachable state; handle_auto_refresh rewrites last_update
\* only in a session that holds a snapshot.
C16_AllOrNothing ==
    /\ (price_data = None) = (market_df = None)
    /\ (price_data = None) = (last_update = None)

C16_Witness ==
    /\ pc = "should"
    /\ price_data # None
    /\ market_df # None
    /\ last_update = Some(clock)
    /\ manual_refresh_triggered
    /\ auto_refresh
    /\ clock >= SliderMin

\* C17 as stated: when handle_auto_refresh fires and the pass is restarted,
\* the restarted pass does not fire again; it finds a refresh due through
\* the manual flag and fetches.
C17_NoSecondFiring ==
    [][/\ (pc = "auto" /\ fired # None /\ pc' # "auto") => pc' = "should"
       /\ (pc = "should" /\ manual_refresh_triggered /\ pc' # "should")
          => pc' = "fetch_price"]_vars

\* C17 amended: the restarted pass fires again only if the clock has advanced
\* by refresh_interval or more since the firing; otherwise it goes on with
\* the manual flag set.  A pass that reaches the test with the manual flag
\* set fetches.  last_update never moves back, and a firing happens only
\* refresh_interval or more after last_update, so two firings are at least
\* an interval apart.
C17_SecondFiringNeedsInterval ==
    [][/\ (pc = "auto" /\ fired # None /\ pc' # "auto")
          => IF clock < Val(fired) + refresh_interval
             THEN pc' = "should" /\ manual_refresh_triggered'
             ELSE pc' = "sidebar" /\ fired' = Some(clock)
       /\ (pc = "should" /\ manual_refresh_triggered /\ pc' # "should")
          => pc' = "fetch_price"
       /\ last_update # None
          => (last_update' # None /\ Val(last_update') >= Val(last_update))
       /\ (fired' # fired /\ fired' # None)
          => /\ clock >= Val(last_update) + refresh_interval
             /\ last_update' = fired'
             /\ fired # None => clock >= Val(fired) + refresh_interval]_vars

C17_Witness ==
    /\ pc = "fetch_price"
    /\ manual_refresh_triggered
    /\ auto_refresh
    /\ price_data # None
    /\ last_update # None
    /\ Val(last_update) >= SliderMin
    /\ clock < Val(last_update) + refresh_interval
    /\ error = NoError

\* reached as well: a pass restarted by a firing fires again, an interval later
C17_SecondFiring ==
    /\ fired # None
    /\ Val(fired) >= 2 * SliderMin
    /\ pc = "sidebar"

(***************************************************************************)
(* Liveness of the refresh, under SpecLive.                                *)
(***************************************************************************)
\* a pass is at handle_auto_refresh, at or after last_update + refresh_interval,
\* with auto refresh on and a snapshot held
AtBoundary ==
    /\ pc = "auto"
    /\ auto_refresh
    /\ price_data # None
    /\ last_update # None
    /\ clock >= Val(last_update) + refresh_interval

\* the state a successful refresh_data leaves
JustRefreshed ==
    /\ pc = "render"
    /\ error = NoError
    /\ ~manual_refresh_triggered
    /\ price_data # None
    /\ last_update = Some(clock)

====
